---- MODULE Spec2Model ----
(***************************************************************************)
(* Model of src/main.rs: a file-backed collection of Project records.      *)
(*                                                                         *)
(* A String is a sequence of one-character strings, a Vec<Project> is a    *)
(* sequence of records, the data file is a record saying whether the path  *)
(* exists and which characters it holds.                                   *)
(***************************************************************************)
EXTENDS Integers, Sequences, FiniteSets, TLC

VARIABLES
    projects,   \* the in-memory collection (Vec<Project>)
    file,       \* the data file: [exists, data]
    pc,         \* position of the running program
    last,       \* the operation that ran last, its arguments and its result
    out,        \* lines printed so far
    exit,       \* <<exit code>> of the run, <<>> while it has not ended
    failed,     \* the I/O steps of main that met a failure
    file0       \* the data file as it was when the program started

vars == <<projects, file, pc, last, out, exit, failed, file0>>

----------------------------------------------------------------------------
(* Bounds *)

\* longest collection of the in-memory specifications
MaxLen == 2
\* longest collection written to the file in the file specification
MaxFileLen == 2

----------------------------------------------------------------------------
(* Data: enum Status, struct Project *)

Status == {"Active", "Inactive", "Archived"}

\* focus: u8
U8Max == 255

Project(n, s, f) == [name |-> n, status |-> s, focus |-> f]

one == <<"o", "n", "e">>
two == <<"t", "w", "o">>
Two == <<"T", "w", "o">>

\* the records the in-memory specifications draw from
Names == {one, two, Two}
Focus == {33, 75}
Records == {Project(n, s, f) : n \in Names, s \in Status, f \in Focus}

RECURSIVE SeqsUpTo(_, _)
SeqsUpTo(S, n) ==
    IF n = 0 THEN {<<>>}
    ELSE LET shorter == SeqsUpTo(S, n - 1)
         IN  shorter \cup {Append(c, r) : c \in {d \in shorter : Len(d) = n - 1}, r \in S}

Collections == SeqsUpTo(Records, MaxLen)

----------------------------------------------------------------------------
(* In-memory operations *)

\* projects.iter().position(|p| p.name == query): 0 when there is none
RECURSIVE FirstFrom(_, _, _)
FirstFrom(ps, query, i) ==
    IF i > Len(ps) THEN 0
    ELSE IF ps[i].name = query THEN i
    ELSE FirstFrom(ps, query, i + 1)

\* a bug: the scan keeps the last match
RECURSIVE LastFrom(_, _, _)
LastFrom(ps, query, i) ==
    IF i < 1 THEN 0
    ELSE IF ps[i].name = query THEN i
    ELSE LastFrom(ps, query, i - 1)

find_last(ps, query) == LastFrom(ps, query, Len(ps))

\* Iterator::find over the slice: the index of the first element whose name
\* equals the query, 0 for None
find(ps, query) == FirstFrom(ps, query, 1)

\* a bug: the comparison ignores the query's case of the first letter
find_project_by_name_nocase(ps, query) ==
    LET fold(n) == IF n = Two THEN two ELSE n
        i == FirstFrom([k \in 1..Len(ps) |-> [ps[k] EXCEPT !.name = fold(@)]], fold(query), 1)
    IN  IF i = 0 THEN <<>> ELSE <<i>>

\* Option<&Project>: <<>> is None, <<i>> is Some(&projects[i])
find_project_by_name(ps, query) ==
    LET i == find(ps, query) IN IF i = 0 THEN <<>> ELSE <<i>>

\* a bug: the new record is always pushed
update_or_add_project_push(ps, new_project) == Append(ps, new_project)

\* a bug: the last match is replaced
update_or_add_project_last(ps, new_project) ==
    LET i == find_last(ps, new_project.name)
    IN  IF i # 0 THEN [ps EXCEPT ![i] = new_project] ELSE Append(ps, new_project)

\* a bug: a record matches only when its status matches too
update_or_add_project_status(ps, new_project) ==
    LET hit == {k \in 1..Len(ps) : ps[k].name = new_project.name
                                   /\ ps[k].status = new_project.status}
    IN  IF hit # {}
        THEN [ps EXCEPT ![CHOOSE k \in hit : \A j \in hit : k <= j] = new_project]
        ELSE Append(ps, new_project)

update_or_add_project(ps, new_project) ==
    LET i == find(ps, new_project.name)
    IN  IF i # 0 THEN [ps EXCEPT ![i] = new_project] ELSE Append(ps, new_project)

----------------------------------------------------------------------------
(* Serialization: serde_json over Vec<Project>, derive(Serialize) *)

Q == "\""
BS == "\\"
NL == "\n"
SP == " "

Digit == <<"0", "1", "2", "3", "4", "5", "6", "7", "8", "9">>

\* the name of a Status variant, as derive(Serialize) writes a unit variant
VariantName(s) ==
    CASE s = "Active"   -> <<"A", "c", "t", "i", "v", "e">>
      [] s = "Inactive" -> <<"I", "n", "a", "c", "t", "i", "v", "e">>
      [] s = "Archived" -> <<"A", "r", "c", "h", "i", "v", "e", "d">>

KeyName == <<"n", "a", "m", "e">>
KeyStatus == <<"s", "t", "a", "t", "u", "s">>
KeyFocus == <<"f", "o", "c", "u", "s">>

\* format_escaped_str_contents: quote, backslash and control characters are
\* written as escapes, every other character as itself
RECURSIVE Escaped(_)
Escaped(str) ==
    IF str = <<>> THEN <<>>
    ELSE LET c == Head(str)
         IN  (CASE c = Q  -> <<BS, Q>>
                [] c = BS -> <<BS, BS>>
                [] c = NL -> <<BS, "n">>
                [] OTHER  -> <<c>>) \o Escaped(Tail(str))

WriteStr(str) == <<Q>> \o Escaped(str) \o <<Q>>

\* itoa of an unsigned integer
RECURSIVE WriteInt(_)
WriteInt(n) ==
    IF n < 10 THEN <<Digit[n + 1]>>
    ELSE WriteInt(n \div 10) \o <<Digit[(n % 10) + 1]>>

Indent(n) == [k \in 1..(2 * n) |-> SP]

\* one Project as a JSON object, fields in declaration order; the pretty
\* formatter puts each field on a line of its own, indented by two spaces per
\* level, and a space after the colon
WriteProject(p, pretty, level) ==
    LET open  == IF pretty THEN <<"{", NL>> \o Indent(level + 1) ELSE <<"{">>
        colon == IF pretty THEN <<":", SP>> ELSE <<":">>
        comma == IF pretty THEN <<",", NL>> \o Indent(level + 1) ELSE <<",">>
        close == IF pretty THEN <<NL>> \o Indent(level) \o <<"}">> ELSE <<"}">>
    IN  open  \o WriteStr(KeyName)   \o colon \o WriteStr(p.name)
     \o comma \o WriteStr(KeyStatus) \o colon \o WriteStr(VariantName(p.status))
     \o comma \o WriteStr(KeyFocus)  \o colon \o WriteInt(p.focus)
     \o close

RECURSIVE WriteElems(_, _, _)
WriteElems(ps, pretty, first) ==
    IF ps = <<>> THEN <<>>
    ELSE (IF pretty
          THEN (IF first THEN <<NL>> ELSE <<",", NL>>) \o Indent(1)
          ELSE (IF first THEN <<>> ELSE <<",">>))
         \o WriteProject(Head(ps), pretty, IF pretty THEN 1 ELSE 0)
         \o WriteElems(Tail(ps), pretty, FALSE)

\* a bug: strings are written between quotes without escaping
to_writer_raw(ps, pretty) ==
    LET raw(p) == <<"{">> \o WriteStr(KeyName) \o <<":", Q>> \o p.name \o <<Q, ",">>
                  \o WriteStr(KeyStatus) \o <<":">> \o WriteStr(VariantName(p.status))
                  \o <<",">> \o WriteStr(KeyFocus) \o <<":">> \o WriteInt(p.focus) \o <<"}">>
        sep(k) == IF k = 1 THEN <<>> ELSE <<",">>
        F[k \in 0..Len(ps)] == IF k = 0 THEN <<>> ELSE F[k - 1] \o sep(k) \o raw(ps[k])
    IN  <<"[">> \o F[Len(ps)] \o <<"]">>

\* serde_json::to_writer (pretty = FALSE) and to_writer_pretty (pretty = TRUE):
\* the text written for a slice of projects
to_writer(ps, pretty) ==
    <<"[">> \o WriteElems(ps, pretty, TRUE)
            \o (IF pretty /\ ps # <<>> THEN <<NL>> ELSE <<>>) \o <<"]">>

----------------------------------------------------------------------------
(* Deserialization: serde_json::from_reader into Vec<Project>,              *)
(* derive(Deserialize).  The object form of a struct and the string form    *)
(* of a unit variant are modelled; a parse step returns [ok, v, i]: whether *)
(* it succeeded, the value read and the index of the next character.        *)

TAB == "\t"
CR == "\r"
EOF == ""
Whitespace == {SP, NL, TAB, CR}
Digits == {Digit[k] : k \in 1..10}
DigitValue(c) == (CHOOSE k \in 1..10 : Digit[k] = c) - 1

Fail == [ok |-> FALSE, v |-> <<>>, i |-> 0]
Got(v, i) == [ok |-> TRUE, v |-> v, i |-> i]

At(s, i) == IF i <= Len(s) THEN s[i] ELSE EOF

\* parse_whitespace: the index of the next character that is not whitespace
RECURSIVE SkipWs(_, _)
SkipWs(s, i) == IF At(s, i) \in Whitespace THEN SkipWs(s, i + 1) ELSE i

\* the character an escape stands for, EOF for one that is not modelled
Unescape(c) ==
    CASE c = Q   -> Q
      [] c = BS  -> BS
      [] c = "/" -> "/"
      [] c = "n" -> NL
      [] c = "t" -> TAB
      [] c = "r" -> CR
      [] OTHER   -> EOF

\* parse_str after the opening quote: up to the closing quote, escapes
\* decoded; a raw control character or the end of input is an error
RECURSIVE ParseStrFrom(_, _, _)
ParseStrFrom(s, i, acc) ==
    LET c == At(s, i)
    IN  IF c = EOF \/ c \in {NL, TAB, CR} THEN Fail
        ELSE IF c = Q THEN Got(acc, i + 1)
        ELSE IF c = BS
             THEN IF Unescape(At(s, i + 1)) = EOF THEN Fail
                  ELSE ParseStrFrom(s, i + 2, Append(acc, Unescape(At(s, i + 1))))
        ELSE ParseStrFrom(s, i + 1, Append(acc, c))

\* a string at j
StrAt(s, j) == IF At(s, j) = Q THEN ParseStrFrom(s, j + 1, <<>>) ELSE Fail

\* String: whitespace, then a string
ParseStr(s, i) == StrAt(s, SkipWs(s, i))

RECURSIVE ParseDigits(_, _, _)
ParseDigits(s, i, acc) ==
    IF At(s, i) \in Digits
    THEN ParseDigits(s, i + 1, 10 * acc + DigitValue(s[i]))
    ELSE Got(acc, i)

\* the integer n that was read is a u8 when no fraction or exponent follows
\* it and it is no greater than u8::MAX
U8End(s, n) ==
    IF At(s, n.i) \in {".", "e", "E"} THEN Fail
    ELSE IF n.v > U8Max THEN Fail
    ELSE n

\* an integer at j: digits, without sign and without a leading zero
U8At(s, j) ==
    IF At(s, j) \notin Digits THEN Fail
    ELSE IF At(s, j) = "0"
         THEN IF At(s, j + 1) \in Digits THEN Fail ELSE U8End(s, Got(0, j + 1))
    ELSE U8End(s, ParseDigits(s, j, 0))

\* u8: whitespace, then an integer
ParseU8(s, i) == U8At(s, SkipWs(s, i))

\* the variant that the string str names
StatusOf(str) ==
    IF ~str.ok \/ (\A v \in Status : VariantName(v) # str.v) THEN Fail
    ELSE Got(CHOOSE v \in Status : VariantName(v) = str.v, str.i)

\* Status: a string that is the name of one of the three variants
ParseStatus(s, i) == StatusOf(ParseStr(s, i))

\* a value at j of a field that is not known (IgnoredAny): a string or a number
IgnoredAt(s, j) ==
    IF At(s, j) = Q THEN StrAt(s, j)
    ELSE IF At(s, j) \in Digits THEN ParseDigits(s, j, 0)
    ELSE Fail

SkipValue(s, i) == IgnoredAt(s, SkipWs(s, i))

\* the field a key names
FieldOf(key) ==
    CASE key = KeyName   -> "name"
      [] key = KeyStatus -> "status"
      [] key = KeyFocus  -> "focus"
      [] OTHER           -> "ignore"

\* the value of a field, by the field's type
ParseValue(s, field, i) ==
    CASE field = "name"   -> ParseStr(s, i)
      [] field = "status" -> ParseStatus(s, i)
      [] field = "focus"  -> ParseU8(s, i)
      [] OTHER            -> SkipValue(s, i)

NoFields == [name |-> <<>>, status |-> <<>>, focus |-> <<>>]

\* The fields of one object, after its brace: each of the three fields once,
\* in any order, separated by commas, up to the closing brace. got holds
\* <<v>> for a field that has been read. A field read twice and a field
\* missing at the closing brace are errors.
RECURSIVE ParseFields(_, _, _, _)
RECURSIVE FieldsAt(_, _, _, _)
RECURSIVE FieldKey(_, _, _)
RECURSIVE FieldColon(_, _, _, _)
RECURSIVE FieldValue(_, _, _, _)

ParseFields(s, i, got, first) == FieldsAt(s, SkipWs(s, i), got, first)

FieldsAt(s, j, got, first) ==
    IF At(s, j) = "}"
    THEN IF got.name = <<>> \/ got.status = <<>> \/ got.focus = <<>> THEN Fail
         ELSE Got(Project(got.name[1], got.status[1], got.focus[1]), j + 1)
    ELSE IF ~first /\ At(s, j) # "," THEN Fail
    ELSE FieldKey(s, ParseStr(s, IF first THEN j ELSE j + 1), got)

FieldKey(s, key, got) ==
    IF ~key.ok THEN Fail
    ELSE FieldColon(s, FieldOf(key.v), SkipWs(s, key.i), got)

FieldColon(s, field, colon, got) ==
    IF At(s, colon) # ":" THEN Fail
    ELSE IF field # "ignore" /\ got[field] # <<>> THEN Fail
    ELSE FieldValue(s, field, ParseValue(s, field, colon + 1), got)

FieldValue(s, field, val, got) ==
    IF ~val.ok THEN Fail
    ELSE ParseFields(s, val.i,
                     IF field = "ignore" THEN got ELSE [got EXCEPT ![field] = <<val.v>>],
                     FALSE)

\* an object at j
ProjectAt(s, j) ==
    IF At(s, j) = "{" THEN ParseFields(s, j + 1, NoFields, TRUE) ELSE Fail

\* Project: whitespace, a brace, the fields
ParseProject(s, i) == ProjectAt(s, SkipWs(s, i))

\* the elements of the array, after its bracket, separated by commas, up to
\* the closing bracket
RECURSIVE ParseElems(_, _, _, _)
RECURSIVE ElemsAt(_, _, _, _)
RECURSIVE ElemsNext(_, _, _)

ParseElems(s, i, acc, first) == ElemsAt(s, SkipWs(s, i), acc, first)

ElemsAt(s, j, acc, first) ==
    IF At(s, j) = "]" THEN Got(acc, j + 1)
    ELSE IF ~first /\ At(s, j) # "," THEN Fail
    ELSE ElemsNext(s, ParseProject(s, IF first THEN j ELSE j + 1), acc)

ElemsNext(s, elem, acc) ==
    IF ~elem.ok THEN Fail
    ELSE ParseElems(s, elem.i, Append(acc, elem.v), FALSE)

\* Deserializer::end: whitespace alone may follow the array
EndOfInput(s, seq) ==
    IF ~seq.ok THEN Fail
    ELSE IF At(s, SkipWs(s, seq.i)) # EOF THEN Fail
    ELSE seq

\* an array at j
ArrayAt(s, j) ==
    IF At(s, j) = "[" THEN EndOfInput(s, ParseElems(s, j + 1, <<>>, TRUE)) ELSE Fail

\* serde_json::from_reader: whitespace, the array, whitespace, end of input
from_reader(s) == ArrayAt(s, SkipWs(s, 1))

----------------------------------------------------------------------------
(* File operations.  An I/O step takes a fault, an input of the model: the  *)
(* operating system refusing the step for a path that is there.            *)

Ok(v) == [ok |-> TRUE, val |-> v, err |-> "none"]
Err(e) == [ok |-> FALSE, val |-> <<>>, err |-> e]

Empty == [exists |-> TRUE, data |-> <<>>]

\* BufWriter::new: the capacity of the buffer in characters
BufCapacity == 8192

\* the Result of the deserialization
Loaded(r) == IF r.ok THEN Ok(r.v) ELSE Err("DeserializationError")

\* a bug: the first project alone is returned
read_projects_from_file_first(f, fault) ==
    IF ~f.exists THEN Err("NotFound")
    ELSE IF fault THEN Err("IOError")
    ELSE [Loaded(from_reader(f.data)) EXCEPT !.val = SubSeq(@, 1, 1)]

\* read_projects_from_file: File::open, then from_reader
read_projects_from_file(f, fault) ==
    IF ~f.exists THEN Err("NotFound")
    ELSE IF fault THEN Err("IOError")
    ELSE Loaded(from_reader(f.data))

\* a bug: the file is opened for writing without truncation
File_create_keep(f, fault) ==
    IF fault THEN [ok |-> FALSE, err |-> "IOError", file |-> f]
    ELSE [ok |-> TRUE, err |-> "none", file |-> [exists |-> TRUE, data |-> f.data]]

\* File::create(path): the file is created, or truncated when it is there
File_create(f, fault) ==
    IF fault THEN [ok |-> FALSE, err |-> "IOError", file |-> f]
    ELSE [ok |-> TRUE, err |-> "none", file |-> Empty]

\* OpenOptions::new().write(true).truncate(true).open(path): no create(true),
\* a path that is not there is an error
OpenOptions_open(f, fault) ==
    IF ~f.exists THEN [ok |-> FALSE, err |-> "NotFound", file |-> f]
    ELSE IF fault THEN [ok |-> FALSE, err |-> "IOError", file |-> f]
    ELSE [ok |-> TRUE, err |-> "none", file |-> Empty]

\* The write of text to the open, truncated file, k its number of characters
\* that reach the file: all of them, or fewer when the write fails.
\* write_to_json hands the File to to_writer and every failed write is its
\* error. write_projects_to_file hands to_writer_pretty a BufWriter: a text
\* within the buffer's capacity reaches the file when the BufWriter is
\* dropped, and drop discards the error of that flush.
WriteBody(text, buffered, k, reported) ==
    [file |-> [exists |-> TRUE, data |-> SubSeq(text, 1, k)],
     ret  |-> IF k = Len(text) \/ (buffered /\ ~reported) THEN Ok(<<>>) ELSE Err("IOError")]

\* whether a failed flush can be reported: never while the text fits the buffer
Reported(text) == IF Len(text) <= BufCapacity THEN {FALSE} ELSE {FALSE, TRUE}

----------------------------------------------------------------------------
(* State *)

\* the exit code of a run that has not ended: none
Running == <<>>
\* main returns Ok(())
ExitSuccess == 0
\* main returns Err: the runtime prints the error and exits with 1
ExitFailure == 1
\* expect() on an Err panics: the process exits with 101
ExitPanic == 101
Absent == [exists |-> FALSE, data |-> <<>>]
NoOp == [op |-> "none", rec |-> <<>>, query |-> <<>>, before |-> <<>>,
         fileBefore |-> Absent, ret |-> <<>>, fault |-> "none"]

\* update_or_add_project(&mut projects, r)
Upsert ==
    /\ pc = "idle"
    /\ \E r \in Records :
         /\ find(projects, r.name) # 0 \/ Len(projects) < MaxLen
         /\ projects' = update_or_add_project(projects, r)
         /\ last' = [NoOp EXCEPT !.op = "upsert", !.rec = <<r>>, !.before = projects]
    /\ UNCHANGED <<file, pc, out, exit, failed, file0>>

\* find_project_by_name(&projects, q)
Find ==
    /\ pc = "idle"
    /\ \E q \in Names \cup {<<>>} :
         last' = [NoOp EXCEPT !.op = "find", !.query = q, !.before = projects,
                              !.ret = find_project_by_name(projects, q)]
    /\ UNCHANGED <<projects, file, pc, out, exit, failed, file0>>

InitRest ==
    /\ pc = "idle"
    /\ last = NoOp
    /\ out = <<>>
    /\ exit = Running
    /\ failed = {}
    /\ file0 = file

\* any collection a file can hold, names repeated or not
InitColl ==
    /\ projects \in Collections
    /\ file = Absent
    /\ InitRest

NextColl == Upsert \/ Find

SpecColl == InitColl /\ [][NextColl]_vars

UniqueNames(ps) == \A i, j \in 1..Len(ps) : ps[i].name = ps[j].name => i = j

\* a collection built by upserts alone: the names are pairwise distinct
InitUnique ==
    /\ projects \in {c \in Collections : UniqueNames(c)}
    /\ file = Absent
    /\ InitRest

NextUnique == Upsert

SpecUnique == InitUnique /\ [][NextUnique]_vars

----------------------------------------------------------------------------
(* The store's file operations on any collection and any file.  A write    *)
(* that fails, or is interrupted, ends the behaviour: the file stays as    *)
(* the failure left it.                                                    *)

\* the records the file specification draws from: every variant, the least
\* and the greatest focus, names that are empty and that need escapes
FileRecords == {Project(<<"a">>, "Active", 7),
                Project(<<Q, BS, NL>>, "Inactive", 0),
                Project(<<>>, "Archived", 255)}

FileCollections == SeqsUpTo(FileRecords, MaxFileLen)

\* a file edited by hand: fields in another order, more whitespace, the same
\* name twice
HandEdited ==
    <<SP, "[", "{">> \o WriteStr(KeyFocus) \o <<":", "7", ",">>
    \o WriteStr(KeyStatus) \o <<SP, ":">> \o WriteStr(VariantName("Active")) \o <<",">>
    \o WriteStr(KeyName) \o <<":", SP>> \o WriteStr(<<"a">>) \o <<"}", SP, ",", NL, "{">>
    \o WriteStr(KeyName) \o <<":">> \o WriteStr(<<"a">>) \o <<",">>
    \o WriteStr(KeyStatus) \o <<":">> \o WriteStr(VariantName("Archived")) \o <<",">>
    \o WriteStr(KeyFocus) \o <<":", "0", "}", "]", NL>>

\* a file whose status is none of the variants
BadStatus ==
    <<"[", "{">> \o WriteStr(KeyName) \o <<":">> \o WriteStr(<<"a">>) \o <<",">>
    \o WriteStr(KeyStatus) \o <<":">> \o WriteStr(<<"D", "o", "n", "e">>) \o <<",">>
    \o WriteStr(KeyFocus) \o <<":", "1", "}", "]">>

InitFiles == {Absent, Empty,
              [exists |-> TRUE, data |-> HandEdited],
              [exists |-> TRUE, data |-> BadStatus]}

\* write_to_json(&projects, path), line 52: File::create
Create ==
    /\ pc = "idle"
    /\ \E fault \in BOOLEAN :
         \E o \in {File_create(file, fault)} :
             /\ file' = o.file
             /\ pc' = IF o.ok THEN "created" ELSE "idle"
             /\ last' = [NoOp EXCEPT !.op = "write_to_json", !.before = projects,
                                     !.fileBefore = file, !.ret = Err(o.err),
                                     !.fault = IF fault THEN "open" ELSE "none"]
    /\ UNCHANGED <<projects, out, exit, failed, file0>>

\* write_to_json, line 53: to_writer
CreateWrite ==
    /\ pc = "created"
    /\ \E text \in {to_writer(projects, FALSE)} :
           \E k \in 0..Len(text) :
             \E o \in {WriteBody(text, FALSE, k, TRUE)} :
                 /\ file' = o.file
                 /\ last' = [last EXCEPT !.ret = o.ret,
                                         !.fault = IF k < Len(text) THEN "write" ELSE "none"]
                 /\ pc' = IF k < Len(text) THEN "interrupted" ELSE "idle"
    /\ UNCHANGED <<projects, out, exit, failed, file0>>

\* write_projects_to_file(&projects, path), lines 58-61: OpenOptions::open
Open ==
    /\ pc = "idle"
    /\ \E fault \in BOOLEAN :
         \E o \in {OpenOptions_open(file, fault)} :
             /\ file' = o.file
             /\ pc' = IF o.ok THEN "opened" ELSE "idle"
             /\ last' = [NoOp EXCEPT !.op = "write_projects_to_file", !.before = projects,
                                     !.fileBefore = file, !.ret = Err(o.err),
                                     !.fault = IF file.exists /\ fault THEN "open" ELSE "none"]
    /\ UNCHANGED <<projects, out, exit, failed, file0>>

\* write_projects_to_file, lines 62-64: BufWriter, to_writer_pretty
OpenWrite ==
    /\ pc = "opened"
    /\ \E text \in {to_writer(projects, TRUE)} :
           \E k \in 0..Len(text), reported \in Reported(text) :
             \E o \in {WriteBody(text, TRUE, k, reported)} :
                 /\ file' = o.file
                 /\ last' = [last EXCEPT !.ret = o.ret,
                                         !.fault = IF k < Len(text) THEN "write" ELSE "none"]
                 /\ pc' = IF k < Len(text) THEN "interrupted" ELSE "idle"
    /\ UNCHANGED <<projects, out, exit, failed, file0>>

\* projects = read_projects_from_file(path)?
Load ==
    /\ pc = "idle"
    /\ \E fault \in BOOLEAN :
         \E r \in {read_projects_from_file(file, fault)} :
             /\ projects' = IF r.ok THEN r.val ELSE projects
             /\ last' = [NoOp EXCEPT !.op = "load", !.before = projects,
                                     !.fileBefore = file, !.ret = r,
                                     !.fault = IF file.exists /\ fault THEN "open" ELSE "none"]
    /\ UNCHANGED <<file, pc, out, exit, failed, file0>>

InitFile ==
    /\ projects \in FileCollections
    /\ file \in InitFiles
    /\ InitRest

NextFile == Create \/ CreateWrite \/ Open \/ OpenWrite \/ Load

SpecFile == InitFile /\ [][NextFile]_vars

----------------------------------------------------------------------------
(* main: one action per statement that reads or writes the file or the     *)
(* collection                                                              *)

\* the vec! literal of main
Seed == <<Project(one, "Active", 100), Project(two, "Archived", 75)>>

\* updated_project
UpdatedProject == Project(two, "Active", 33)

Line(kind, p) == [kind |-> kind, p |-> p]

\* the lines a listing prints: one per project, or the failure
Listing(r) ==
    IF r.ok THEN [k \in 1..Len(r.val) |-> Line("project", <<r.val[k]>>)]
    ELSE <<Line("failed to read", <<r.err>>)>>

\* the run ends: main panics or returns
End(code) ==
    /\ pc' = "done"
    /\ exit' = <<code>>

\* line 98, write_to_json: File::create. expect() panics on an error
MainCreate ==
    /\ pc = "m_create"
    /\ \E fault \in BOOLEAN :
         \E o \in {File_create(file, fault)} :
             /\ file' = o.file
             /\ last' = [NoOp EXCEPT !.op = "create", !.before = projects,
                                     !.fileBefore = file, !.ret = Err(o.err)]
             /\ IF o.ok
                THEN pc' = "m_write" /\ UNCHANGED <<exit, failed>>
                ELSE End(ExitPanic) /\ failed' = failed \cup {"write"}
    /\ UNCHANGED <<projects, out, file0>>

\* line 98, write_to_json: to_writer. expect() panics on an error
MainWrite ==
    /\ pc = "m_write"
    /\ \E text \in {to_writer(projects, FALSE)} :
           \E k \in 0..Len(text) :
             \E o \in {WriteBody(text, FALSE, k, TRUE)} :
                 /\ file' = o.file
                 /\ last' = [last EXCEPT !.op = "write", !.ret = o.ret]
                 /\ IF o.ret.ok
                    THEN pc' = "m_find" /\ UNCHANGED <<exit, failed>>
                    ELSE End(ExitPanic) /\ failed' = failed \cup {"write"}
    /\ UNCHANGED <<projects, out, file0>>

\* lines 100-108: FIND ONE, in the literal
MainFind ==
    /\ pc = "m_find"
    /\ \E r \in {find_project_by_name(projects, two)} :
           /\ out' = Append(out, IF r = <<>> THEN Line("not found", <<>>)
                                 ELSE Line("found", <<projects[r[1]]>>))
           /\ last' = [NoOp EXCEPT !.op = "find", !.query = two, !.before = projects,
                                   !.ret = r]
    /\ pc' = "m_list"
    /\ UNCHANGED <<projects, file, exit, failed, file0>>

\* a bug: the error of the listing's read is propagated with ?
MainList_fatal ==
    /\ pc = "m_list"
    /\ \E fault \in BOOLEAN :
         \E r \in {read_projects_from_file(file, fault)} :
             /\ last' = [NoOp EXCEPT !.op = "list", !.before = projects,
                                     !.fileBefore = file, !.ret = r]
             /\ IF r.ok
                THEN /\ out' = out \o Listing(r)
                     /\ pc' = "m_read"
                     /\ UNCHANGED <<exit, failed>>
                ELSE /\ End(ExitFailure)
                     /\ failed' = failed \cup {"list"}
                     /\ UNCHANGED out
    /\ UNCHANGED <<projects, file, file0>>

\* lines 110-123: GET ALL. The error of the read is matched and printed
MainList ==
    /\ pc = "m_list"
    /\ \E fault \in BOOLEAN :
         \E r \in {read_projects_from_file(file, fault)} :
             /\ out' = out \o Listing(r)
             /\ last' = [NoOp EXCEPT !.op = "list", !.before = projects,
                                     !.fileBefore = file, !.ret = r]
             /\ failed' = IF r.ok THEN failed ELSE failed \cup {"list"}
    /\ pc' = "m_read"
    /\ UNCHANGED <<projects, file, exit, file0>>

\* a bug: the error of the read is dropped and the update goes on with the
\* collection at hand
MainRead_caught ==
    /\ pc = "m_read"
    /\ \E fault \in BOOLEAN :
         \E r \in {read_projects_from_file(file, fault)} :
             /\ last' = [NoOp EXCEPT !.op = "read", !.before = projects,
                                     !.fileBefore = file, !.ret = r]
             /\ projects' = IF r.ok THEN r.val ELSE projects
             /\ failed' = IF r.ok THEN failed ELSE failed \cup {"read"}
    /\ pc' = "m_upsert"
    /\ UNCHANGED <<file, out, exit, file0>>

\* line 127: let mut projects = read_projects_from_file(file_path)?
MainRead ==
    /\ pc = "m_read"
    /\ \E fault \in BOOLEAN :
         \E r \in {read_projects_from_file(file, fault)} :
             /\ last' = [NoOp EXCEPT !.op = "read", !.before = projects,
                                     !.fileBefore = file, !.ret = r]
             /\ IF r.ok
                THEN /\ projects' = r.val
                     /\ pc' = "m_upsert"
                     /\ UNCHANGED <<exit, failed>>
                ELSE /\ End(ExitFailure)
                     /\ failed' = failed \cup {"read"}
                     /\ UNCHANGED projects
    /\ UNCHANGED <<file, out, file0>>

\* lines 130-137: update_or_add_project(&mut projects, updated_project)
MainUpsert ==
    /\ pc = "m_upsert"
    /\ projects' = update_or_add_project(projects, UpdatedProject)
    /\ last' = [NoOp EXCEPT !.op = "upsert", !.rec = <<UpdatedProject>>,
                            !.before = projects]
    /\ pc' = "m_open"
    /\ UNCHANGED <<file, out, exit, failed, file0>>

\* line 140, write_projects_to_file: OpenOptions::open, ? on its error
MainOpen ==
    /\ pc = "m_open"
    /\ \E fault \in BOOLEAN :
         \E o \in {OpenOptions_open(file, fault)} :
             /\ file' = o.file
             /\ last' = [NoOp EXCEPT !.op = "open", !.before = projects,
                                     !.fileBefore = file, !.ret = Err(o.err)]
             /\ IF o.ok
                THEN pc' = "m_flush" /\ UNCHANGED <<exit, failed>>
                ELSE End(ExitFailure) /\ failed' = failed \cup {"update open"}
    /\ UNCHANGED <<projects, out, file0>>

\* line 140, write_projects_to_file: to_writer_pretty into the BufWriter and
\* the BufWriter's drop, ? on the error that is returned
MainFlush ==
    /\ pc = "m_flush"
    /\ \E text \in {to_writer(projects, TRUE)} :
           \E k \in 0..Len(text), reported \in Reported(text) :
             \E o \in {WriteBody(text, TRUE, k, reported)} :
                 /\ file' = o.file
                 /\ last' = [last EXCEPT !.op = "flush", !.ret = o.ret]
                 /\ failed' = IF k < Len(text) THEN failed \cup {"update write"}
                              ELSE failed
                 /\ IF o.ret.ok
                    THEN pc' = "m_list2" /\ UNCHANGED exit
                    ELSE End(ExitFailure)
    /\ UNCHANGED <<projects, out, file0>>

\* lines 142-159: GET ALL AGAIN, then Ok(())
MainList2 ==
    /\ pc = "m_list2"
    /\ \E fault \in BOOLEAN :
         \E r \in {read_projects_from_file(file, fault)} :
             /\ out' = out \o <<Line("updated projects", <<>>)>> \o Listing(r)
             /\ last' = [NoOp EXCEPT !.op = "list2", !.before = projects,
                                     !.fileBefore = file, !.ret = r]
             /\ failed' = IF r.ok THEN failed ELSE failed \cup {"list2"}
    /\ End(ExitSuccess)
    /\ UNCHANGED <<projects, file, file0>>

\* the program starts with the file absent or left there by anyone
InitMain ==
    /\ projects = Seed
    /\ file \in InitFiles
    /\ pc = "m_create"
    /\ last = NoOp
    /\ out = <<>>
    /\ exit = Running
    /\ failed = {}
    /\ file0 = file

NextMain ==
    \/ MainCreate \/ MainWrite \/ MainFind \/ MainList \/ MainRead
    \/ MainUpsert \/ MainOpen \/ MainFlush \/ MainList2

SpecMain == InitMain /\ [][NextMain]_vars

----------------------------------------------------------------------------
(* Claims on the in-memory operations *)

Matches(ps, n) == {k \in 1..Len(ps) : ps[k].name = n}
Least(S) == CHOOSE k \in S : \A j \in S : k <= j

\* C1: an upsert of r replaces the first record named r.name in place, the
\* length and every other record unchanged; when no record has that name r
\* becomes the last element, the length grows by one and the prior records
\* keep value and position.
C1_Upsert ==
    last.op = "upsert" =>
        LET C == last.before
            r == last.rec[1]
            hit == Matches(C, r.name)
        IN  IF hit # {}
            THEN /\ Len(projects) = Len(C)
                 /\ projects[Least(hit)] = r
                 /\ \A k \in 1..Len(C) : k # Least(hit) => projects[k] = C[k]
            ELSE /\ Len(projects) = Len(C) + 1
                 /\ projects[Len(projects)] = r
                 /\ \A k \in 1..Len(C) : projects[k] = C[k]

C1_Witness ==
    /\ last.op = "upsert"
    /\ Len(last.before) = 2
    /\ Matches(last.before, last.rec[1].name) = {1, 2}
    /\ last.before[1] # last.rec[1]
    /\ last.before[2] # last.rec[1]
    /\ last.before[1] # last.before[2]

\* C3: a lookup returns None when no record has the name, else a reference to
\* the first record in storage order that has it; the collection is unchanged.
C3_Find ==
    last.op = "find" =>
        LET hit == Matches(last.before, last.query)
        IN  /\ projects = last.before
            /\ hit = {} => last.ret = <<>>
            /\ hit # {} => last.ret = <<Least(hit)>>

C3_Witness ==
    /\ last.op = "find"
    /\ Matches(last.before, last.query) = {1, 2}
    /\ last.before[1] # last.before[2]
    /\ last.ret = <<1>>

\* C8: the upsert of a record just upserted changes nothing.
C8_Idempotent ==
    last.op = "upsert" => update_or_add_project(projects, last.rec[1]) = projects

C8_Witness ==
    /\ last.op = "upsert"
    /\ Len(projects) = Len(last.before) + 1
    /\ Len(last.before) > 0

\* C9: from pairwise distinct names, upserts keep the names pairwise distinct.
C9_Unique == UniqueNames(projects)

C9_Witness ==
    /\ last.op = "upsert"
    /\ Len(last.before) = 2
    /\ projects # last.before
    /\ Len(projects) = 2

----------------------------------------------------------------------------
(* Claims on the file operations *)

Saves == {"write_to_json", "write_projects_to_file"}

\* the text a save writes: compact for write_to_json, pretty for
\* write_projects_to_file
SavedText == to_writer(last.before, last.op = "write_projects_to_file")

\* a save that ran to its end without a fault of the operating system
SaveEnded == pc = "idle" /\ last.op \in Saves /\ last.fault = "none"

\* C2: after a save of C by either writer, a load of the path returns the
\* records of C in the order of C.
C2_RoundTrip ==
    (SaveEnded /\ last.ret.ok) => read_projects_from_file(file, FALSE) = Ok(last.before)

C2_Witness ==
    /\ SaveEnded
    /\ last.ret.ok
    /\ last.op = "write_projects_to_file"
    /\ Len(last.before) = 2
    /\ last.before[1].name = <<Q, BS, NL>>
    /\ last.before[2].focus = U8Max
    /\ file.data # to_writer(last.before, FALSE)

\* C5: every save to a writable path leaves the file there, holding the whole
\* serialized collection and nothing else, whether or not the file was there
\* before.
C5_SaveCreatesOrTruncates ==
    SaveEnded => last.ret.ok /\ file.exists /\ file.data = SavedText

\* a save is under way or was cut short: the file has been truncated and the
\* whole text has not been written
SaveCut == pc \in {"created", "opened", "interrupted"}

\* C10: while a save is cut short after the truncation, the file holds
\* neither the previous collection nor the new one: a load of it fails, and
\* no copy of the previous content is left.
C10_NotAtomic ==
    SaveCut =>
        /\ file.exists
        /\ file.data # SavedText
        /\ last.fileBefore.data # <<>> => file.data # last.fileBefore.data
        /\ ~read_projects_from_file(file, FALSE).ok

C10_Witness ==
    /\ pc = "interrupted"
    /\ last.op = "write_to_json"
    /\ read_projects_from_file(last.fileBefore, FALSE).ok
    /\ Len(file.data) > 1
    /\ Len(last.before) = 2

----------------------------------------------------------------------------
(* Claims on main *)

Final == <<Project(one, "Active", 100), Project(two, "Active", 33)>>

\* C4: with the file absent a load fails with NotFound; after the save of the
\* two literal records a load returns them in order; after the upsert of
\* two/Active/33 and the save a load returns one/Active/100, two/Active/33;
\* a run in which no step fails ends with exit code 0, that collection in
\* the file and in the last listing.
C4_Scenario ==
    /\ (pc = "m_create" /\ ~file.exists) =>
           read_projects_from_file(file, FALSE) = Err("NotFound")
    /\ pc = "m_find" => read_projects_from_file(file, FALSE) = Ok(Seed)
    /\ pc = "m_upsert" => projects = Seed
    /\ (pc = "m_list2" /\ "update write" \notin failed) =>
           read_projects_from_file(file, FALSE) = Ok(Final)
    /\ (pc = "done" /\ failed = {}) =>
           /\ exit = <<ExitSuccess>>
           /\ read_projects_from_file(file, FALSE) = Ok(Final)
           /\ SubSeq(out, Len(out) - 2, Len(out))
                = <<Line("updated projects", <<>>)>> \o Listing(Ok(Final))

C4_Witness ==
    /\ pc = "done"
    /\ failed = {}
    /\ ~file0.exists
    /\ file.data = to_writer(Final, TRUE)

C7_Asymmetric ==
    /\ (last.op = "list" /\ ~last.ret.ok) =>
           /\ pc = "m_read" /\ exit = Running
           /\ out[Len(out)] = Line("failed to read", <<last.ret.err>>)
    /\ (last.op = "list2" /\ ~last.ret.ok) =>
           /\ pc = "done" /\ exit = <<ExitSuccess>>
           /\ out[Len(out)] = Line("failed to read", <<last.ret.err>>)
    /\ "read" \in failed =>
           /\ pc = "done" /\ exit # <<ExitSuccess>>
           /\ last.op = "read"
           /\ projects = last.before
           /\ file = last.fileBefore

C7_Witness ==
    /\ failed = {"list", "read"}
    /\ pc = "done"
    /\ read_projects_from_file(file, FALSE) = Ok(Seed)

====
